---- MODULE Spec2Model ----
(***************************************************************************)
(* Model of the price-tracking engine of src/bot.js: the two JSON files    *)
(* (price history, tracked items), the storage functions that load, change *)
(* and save them, the !empik and !track command handlers and the cron      *)
(* callback that rechecks the tracked items.                               *)
(*                                                                         *)
(* One action is one run of JavaScript between two awaits: the awaited     *)
(* I/O completes and the function runs on, synchronously, to its next      *)
(* await.  A file read takes effect in the step that resumes after it, a   *)
(* file write in the step that resumes after saveData.                     *)
(*                                                                         *)
(* Time is counted in units of 1/UnitsPerDay day; toDateString() is the    *)
(* local calendar day, taken in a fixed zone with offset 0.                *)
(***************************************************************************)
EXTENDS Integers, Sequences, FiniteSets, TLC

\* ---------------------------------------------------------------- bounds
MaxCmds == 2
MaxTicks == 2
MaxClockSteps == 2
MaxSeries == 3
UnitsPerDay == 3

\* ------------------------------------------------------ program constants
RetentionDays == 30
RetentionUnits == RetentionDays * UnitsPerDay
DealsLimit == 5

\* ------------------------------------------------------------ input sets
Users == {"u1"}
Channels == {"c1"}
Urls == {"a", "b"}
Targets == {1, 2}

NullProduct == [ok |-> FALSE, title |-> "", price |-> 0]
FetchResults ==
    { NullProduct,
      [ok |-> TRUE, title |-> "Unknown Product", price |-> 0],
      [ok |-> TRUE, title |-> "t1", price |-> 1],
      [ok |-> TRUE, title |-> "t2", price |-> 2] }

\* What the alert branch of the cron callback meets: the channel is not in
\* the cache; building the embed throws; the message is sent and later
\* acknowledged or rejected (the promise of channel.send is not awaited).
\* alerts counts, per key, the alerts that were delivered.
AlertEnvs == {"nochannel", "throws", "ack", "rejected"}

Cmds == {<<"cmd", i>> : i \in 1..MaxCmds}
Ticks == {<<"tick", i>> : i \in 1..MaxTicks}
Procs == Cmds \cup Ticks
Keys == Users \X Urls

VARIABLES now, priceHistory, trackedItems, proc, alerts

vars == <<now, priceHistory, trackedItems, proc, alerts>>

\* ------------------------------------------------------------ the clock
\* The instants the clock is read at: the second unit of a day; then, a
\* retention window after the start of that day, the first and the last unit
\* of a day; and so on, window after window.
Instant(i) ==
    IF i % 2 = 1 THEN ((i + 1) \div 2) * RetentionUnits
    ELSE (i \div 2) * RetentionUnits + (IF i = 0 THEN 1 ELSE UnitsPerDay - 1)

ClockSteps(t) ==
    IF t % RetentionUnits = 0 THEN 2 * (t \div RetentionUnits) - 1
    ELSE 2 * (t \div RetentionUnits)

\* ------------------------------------------------- JavaScript objects
\* An object is the sequence of its [k, v] properties in insertion order.
ObjHas(o, k) == \E i \in DOMAIN o : o[i].k = k

ObjGet(o, k) == o[CHOOSE i \in DOMAIN o : o[i].k = k].v

ObjSet(o, k, v) ==
    IF ObjHas(o, k)
    THEN [i \in DOMAIN o |-> IF o[i].k = k THEN [k |-> k, v |-> v] ELSE o[i]]
    ELSE Append(o, [k |-> k, v |-> v])

ObjDelete(o, k) == SelectSeq(o, LAMBDA e : e.k # k)

ObjValues(o) == [i \in DOMAIN o |-> o[i].v]

ObjKeys(o) == {o[i].k : i \in DOMAIN o}

\* ------------------------------------------------------------- storage
Day(ts) == ts \div UnitsPerDay

Filter(entries, t) == SelectSeq(entries, LAMBDA e : e.timestamp > t - RetentionUnits)

RECURSIVE CleanFrom(_, _, _)
CleanFrom(o, i, t) ==
    IF i > Len(o) THEN <<>>
    ELSE LET kept == Filter(o[i].v, t)
         IN  (IF Len(kept) = 0 THEN <<>> ELSE <<[k |-> o[i].k, v |-> kept]>>)
             \o CleanFrom(o, i + 1, t)

\* As cleanOldEntries, dropping nothing.
cleanOldEntriesKeepsAll(o, t) == o

\* As cleanOldEntries, leaving a url whose entries are all dropped.
cleanOldEntriesKeepsEmpty(o, t) == [i \in DOMAIN o |-> [k |-> o[i].k, v |-> Filter(o[i].v, t)]]

cleanOldEntries(o, t) == CleanFrom(o, 1, t)

HasToday(entries, t) == \E i \in DOMAIN entries : Day(entries[i].timestamp) = Day(t)

PriceRecord(product, t) ==
    [title |-> product.title, price |-> product.price, currency |-> "PLN", timestamp |-> t]

\* savePriceHistory from its load to its save: the object to write.
Pushed(o, url, product, t) ==
    LET series == IF ObjHas(o, url) THEN ObjGet(o, url) ELSE <<>>
    IN  cleanOldEntries(ObjSet(o, url, Append(series, PriceRecord(product, t))), t)

\* As ExistingToday, comparing the timestamps instead of the calendar days.
ExistingTodayExact(o, url, t) ==
    ObjHas(o, url) /\ \E i \in DOMAIN ObjGet(o, url) : ObjGet(o, url)[i].timestamp = t

ExistingToday(o, url, t) == ObjHas(o, url) /\ HasToday(ObjGet(o, url), t)

TrackedItem(userId, channelId, url, targetPrice, t) ==
    [userId |-> userId, channelId |-> channelId, url |-> url,
     targetPrice |-> targetPrice, createdAt |-> t]

Key(userId, url) == <<userId, url>>

\* As Upsert, adding the entry without looking for its key.
UpsertAppends(o, item) == Append(o, [k |-> Key(item.userId, item.url), v |-> item])

Upsert(o, item) == ObjSet(o, Key(item.userId, item.url), item)

Removed(o, userId, url) == ObjDelete(o, Key(userId, url))

\* ----------------------------------------------------------- processes
NoItem == TrackedItem("", "", "", 0, 0)

IdleProc ==
    [pc |-> "idle", op |-> "none", arg |-> NoItem, product |-> NullProduct,
     data |-> <<>>, reply |-> "none", snapshot |-> <<>>, idx |-> 0, alert |-> "none",
     log |-> <<>>]

IsTick(p) == p[1] = "tick"

InFlight(p) == proc[p].pc \notin {"idle", "done"}

Item(p) == IF IsTick(p) THEN proc[p].snapshot[proc[p].idx] ELSE proc[p].arg

\* Slots are used in order, each for one run.
MayStart(p) ==
    /\ proc[p].pc = "idle"
    /\ IF p[2] = 1 THEN TRUE ELSE proc[<<p[1], p[2] - 1>>].pc # "idle"

Init ==
    /\ now = Instant(0)
    /\ priceHistory = <<>>
    /\ trackedItems = <<>>
    /\ proc = [p \in Procs |-> IdleProc]
    /\ alerts = [k \in Keys |-> 0]

ClockAdvance ==
    /\ ClockSteps(now) < MaxClockSteps
    /\ now' = Instant(ClockSteps(now) + 1)
    /\ UNCHANGED <<priceHistory, trackedItems, proc, alerts>>

\* ------------------------------------------------- the cron callback's loop
\* As NextItem, ending the loop before the last item of the list.
NextItemSkipsLast(r) ==
    IF r.idx + 1 >= Len(r.snapshot)
    THEN [r EXCEPT !.pc = "end", !.alert = "none"]
    ELSE [r EXCEPT !.pc = "fetch", !.idx = r.idx + 1, !.alert = "none"]

\* The loop moves to its next item and fetches it, or is at its end.
NextItem(r) ==
    IF r.idx + 1 > Len(r.snapshot)
    THEN [r EXCEPT !.pc = "end", !.alert = "none"]
    ELSE [r EXCEPT !.pc = "fetch", !.idx = r.idx + 1, !.alert = "none"]

TargetHit(product, item) ==
    product.ok /\ product.price <= item.targetPrice /\ product.price > 0

Alert(product, item, env) == IF TargetHit(product, item) THEN env ELSE "none"

Sends(alert) == alert \in {"ack", "rejected"}

\* As TickAfterScrape, with a failed fetch ending the loop.
TickAfterScrapeAborts(r, product, env) ==
    LET alert == Alert(product, r.snapshot[r.idx], env)
        logged == [r EXCEPT !.log = Append(r.log, [ok |-> product.ok, price |-> product.price,
                                                   sent |-> Sends(alert),
                                                   delayed |-> alert # "throws"]),
                            !.product = NullProduct, !.data = <<>>]
    IN  IF Sends(alert) THEN [logged EXCEPT !.pc = "rmLoad", !.alert = alert]
        ELSE IF ~product.ok THEN [logged EXCEPT !.pc = "end"]
        ELSE NextItem(logged)

\* The cron callback from the return of scrapeEmpikProduct to its next await:
\* after a send the call of removeTrackedItem; with no alert, or no channel,
\* the delay and the next item; an error thrown in the try block is caught
\* and the loop goes on without the delay.
TickAfterScrape(r, product, env) ==
    LET alert == Alert(product, r.snapshot[r.idx], env)
        logged == [r EXCEPT !.log = Append(r.log, [ok |-> product.ok, price |-> product.price,
                                                   sent |-> Sends(alert),
                                                   delayed |-> alert # "throws"]),
                            !.product = NullProduct, !.data = <<>>]
    IN  IF Sends(alert) THEN [logged EXCEPT !.pc = "rmLoad", !.alert = alert]
        ELSE NextItem(logged)

\* The !empik handler from the return of scrapeEmpikProduct to its reply
\* (getPriceStats, on the way, only reads the history).
CmdAfterScrape(r, product) ==
    [r EXCEPT !.pc = "done", !.product = product, !.data = <<>>,
              !.reply = IF product.ok THEN "product"
                        ELSE "Could not fetch product information."]

ItemOf(p, r) == IF IsTick(p) THEN r.snapshot[r.idx] ELSE r.arg

\* scrapeEmpikProduct returns `product` to its caller p, whose state is r.
ScrapeReturns(p, r, product, env) ==
    /\ proc' = [proc EXCEPT ![p] = IF IsTick(p) THEN TickAfterScrape(r, product, env)
                                   ELSE CmdAfterScrape(r, product)]
    /\ alerts' = IF IsTick(p) /\ Alert(product, ItemOf(p, r), env) = "ack"
               THEN [alerts EXCEPT ![Key(ItemOf(p, r).userId, ItemOf(p, r).url)] = @ + 1]
               ELSE alerts

\* ------------------------------------------------------ scrapeEmpikProduct
\* As Scraped, calling savePriceHistory whatever the price.
ScrapedAnyPrice(p, r, res, env) ==
    /\ IF res.ok /\ ~ExistingToday(priceHistory, ItemOf(p, r).url, now)
       THEN /\ proc' = [proc EXCEPT ![p] =
                           [r EXCEPT !.pc = "sphSave", !.product = res,
                                     !.data = Pushed(priceHistory, ItemOf(p, r).url, res, now)]]
            /\ UNCHANGED alerts
       ELSE ScrapeReturns(p, r, res, env)
    /\ UNCHANGED <<now, priceHistory, trackedItems>>

\* axios.get has resolved or failed with `res`, for caller p. A product with a
\* price goes to savePriceHistory, which loads the file, looks up today's
\* entry and, finding none, pushes one, cleans and starts to save.
Scraped(p, r, res, env) ==
    /\ IF res.ok /\ res.price > 0 /\ ~ExistingToday(priceHistory, ItemOf(p, r).url, now)
       THEN /\ proc' = [proc EXCEPT ![p] =
                           [r EXCEPT !.pc = "sphSave", !.product = res,
                                     !.data = Pushed(priceHistory, ItemOf(p, r).url, res, now)]]
            /\ UNCHANGED alerts
       ELSE ScrapeReturns(p, r, res, env)
    /\ UNCHANGED <<now, priceHistory, trackedItems>>

\* The fetch of the cron callback's current item ends.
Fetch(p, res, env) ==
    /\ proc[p].pc = "fetch"
    /\ Scraped(p, proc[p], res, env)

\* savePriceHistory after saveData: the file holds the object.
SphSave(p, env) ==
    /\ proc[p].pc = "sphSave"
    /\ priceHistory' = proc[p].data
    /\ ScrapeReturns(p, proc[p], proc[p].product, env)
    /\ UNCHANGED <<now, trackedItems>>

\* ------------------------------------------------------------- commands
\* !empik <url>: the handler calls scrapeEmpikProduct.
CmdEmpik(p, url, res) ==
    /\ MayStart(p)
    /\ Scraped(p, [IdleProc EXCEPT !.op = "empik", !.arg = [NoItem EXCEPT !.url = url]],
               res, "none")

\* !track <url> <price>: the handler calls saveTrackedItem, which loads the
\* file, sets the entry under its key and starts to save.
CmdTrack(p, userId, channelId, url, targetPrice) ==
    /\ MayStart(p)
    /\ LET item == TrackedItem(userId, channelId, url, targetPrice, now)
       IN  proc' = [proc EXCEPT ![p] = [IdleProc EXCEPT !.pc = "trkSave", !.op = "track",
                        !.arg = item, !.data = Upsert(trackedItems, item)]]
    /\ UNCHANGED <<now, priceHistory, trackedItems, alerts>>

\* saveTrackedItem returns true and the handler replies.
TrkReturned(r) ==
    [r EXCEPT !.pc = "done", !.reply = "tracking", !.data = <<>>,
              !.arg = [NoItem EXCEPT !.userId = r.arg.userId, !.url = r.arg.url]]

\* saveTrackedItem after saveData: the file holds the object.
TrkSave(p) ==
    /\ proc[p].pc = "trkSave"
    /\ trackedItems' = proc[p].data
    /\ proc' = [proc EXCEPT ![p] = TrkReturned(@)]
    /\ UNCHANGED <<now, priceHistory, alerts>>

\* ----------------------------------------------------- the cron callback
\* The schedule fires; getTrackedItems loads the file and returns its values,
\* the list the loop goes through.
TickStart(p) ==
    /\ MayStart(p)
    /\ proc' = [proc EXCEPT ![p] =
                   NextItem([IdleProc EXCEPT !.op = "tick", !.snapshot = ObjValues(trackedItems)])]
    /\ UNCHANGED <<now, priceHistory, trackedItems, alerts>>

\* The callback returns.
TickEnd(p) ==
    /\ proc[p].pc = "end"
    /\ proc' = [proc EXCEPT ![p] = [IdleProc EXCEPT !.pc = "done", !.op = "tick"]]
    /\ UNCHANGED <<now, priceHistory, trackedItems, alerts>>

\* removeTrackedItem after loadData: the key is deleted from the loaded object.
RmLoad(p) ==
    /\ proc[p].pc = "rmLoad"
    /\ proc' = [proc EXCEPT ![p].pc = "rmSave",
                    ![p].data = Removed(trackedItems, Item(p).userId, Item(p).url)]
    /\ UNCHANGED <<now, priceHistory, trackedItems, alerts>>

\* removeTrackedItem after saveData; the delay, and the loop goes on.
RmSave(p) ==
    /\ proc[p].pc = "rmSave"
    /\ trackedItems' = proc[p].data
    /\ proc' = [proc EXCEPT ![p] = NextItem([@ EXCEPT !.data = <<>>])]
    /\ UNCHANGED <<now, priceHistory, alerts>>

\* ------------------------------------------------------ write failures
\* fs.writeFile (or mkdir) fails in saveData: the file is left as it was, or
\* was truncated on opening, and then loadData, failing to parse it, returns
\* {}. saveData catches and logs the error: its caller goes on as after a save.
FailedFiles(file) == {file, <<>>}

SphSaveFails(p, env) ==
    /\ proc[p].pc = "sphSave"
    /\ priceHistory' \in FailedFiles(priceHistory)
    /\ ScrapeReturns(p, proc[p], proc[p].product, env)
    /\ UNCHANGED <<now, trackedItems>>

TrkSaveFails(p) ==
    /\ proc[p].pc = "trkSave"
    /\ trackedItems' \in FailedFiles(trackedItems)
    /\ proc' = [proc EXCEPT ![p] = TrkReturned(@)]
    /\ UNCHANGED <<now, priceHistory, alerts>>

RmSaveFails(p) ==
    /\ proc[p].pc = "rmSave"
    /\ trackedItems' \in FailedFiles(trackedItems)
    /\ proc' = [proc EXCEPT ![p] = NextItem([@ EXCEPT !.data = <<>>])]
    /\ UNCHANGED <<now, priceHistory, alerts>>

\* -------------------------------------------------------------- queries
\* Prices are counted in grosze, 1/100 PLN: price 190 is the number that
\* parseFloat gives for "1.90". On the prices of QueryPrices the arithmetic of
\* getPriceStats and findCurrentDeals, done in IEEE 754 doubles, gives what
\* the exact arithmetic gives, but for one quotient: with previous 2.80 and
\* latest 2.66 the difference of the doubles is 0.13999999999999968 and
\* (previous - latest) / previous * 100 is 4.999999999999989.
QueryPrices == {190, 192, 200, 266, 280}

DoubleUnder(previous, latest) == <<previous, latest>> \in {<<280, 266>>}

\* discountPercent >= 5
DiscountAtLeast5(previous, latest) ==
    (previous - latest) * 100 >= 5 * previous /\ ~DoubleUnder(previous, latest)

\* discountPercent.toFixed(1), read back by parseFloat: a number of tenths.
DiscountTenths(previous, latest) ==
    ((previous - latest) * 2000 + previous) \div (2 * previous)

\* Math.min(...prices), Math.max(...prices), prices.reduce((a, b) => a + b, 0)
RECURSIVE MinPrice(_, _)
MinPrice(entries, i) ==
    IF i = Len(entries) THEN entries[i].price
    ELSE LET rest == MinPrice(entries, i + 1)
         IN  IF entries[i].price < rest THEN entries[i].price ELSE rest

RECURSIVE MaxPrice(_, _)
MaxPrice(entries, i) ==
    IF i = Len(entries) THEN entries[i].price
    ELSE LET rest == MaxPrice(entries, i + 1)
         IN  IF entries[i].price > rest THEN entries[i].price ELSE rest

RECURSIVE SumPrice(_, _)
SumPrice(entries, i) ==
    IF i > Len(entries) THEN 0 ELSE entries[i].price + SumPrice(entries, i + 1)

\* average.toFixed(2): a number of grosze, the half rounded up.
AvgFixed2(entries) == (2 * SumPrice(entries, 1) + Len(entries)) \div (2 * Len(entries))

\* As getPriceStats, taking the first entry of the series for the latest.
getPriceStatsFirst(o, url) ==
    LET urlHistory == IF ObjHas(o, url) THEN ObjGet(o, url) ELSE <<>>
    IN  IF Len(urlHistory) = 0 THEN <<>>
        ELSE <<[lowest_price |-> MinPrice(urlHistory, 1),
                highest_price |-> MaxPrice(urlHistory, 1),
                avg_price |-> AvgFixed2(urlHistory),
                price_checks |-> Len(urlHistory),
                latest_price |-> urlHistory[1].price,
                latest_check |-> urlHistory[1].timestamp]>>

\* getPriceStats on the loaded object o: <<>> for null, or <<stats>>.
getPriceStats(o, url) ==
    LET urlHistory == IF ObjHas(o, url) THEN ObjGet(o, url) ELSE <<>>
    IN  IF Len(urlHistory) = 0 THEN <<>>
        ELSE <<[lowest_price |-> MinPrice(urlHistory, 1),
                highest_price |-> MaxPrice(urlHistory, 1),
                avg_price |-> AvgFixed2(urlHistory),
                price_checks |-> Len(urlHistory),
                latest_price |-> urlHistory[Len(urlHistory)].price,
                latest_check |-> urlHistory[Len(urlHistory)].timestamp]>>

\* history.sort((a, b) => new Date(a.timestamp) - new Date(b.timestamp)): the
\* sort is stable.
InsertByTimestamp(sorted, e) ==
    LET n == Cardinality({i \in DOMAIN sorted : sorted[i].timestamp <= e.timestamp})
    IN  SubSeq(sorted, 1, n) \o <<e>> \o SubSeq(sorted, n + 1, Len(sorted))

RECURSIVE SortByTimestamp(_, _)
SortByTimestamp(history, n) ==
    IF n = 0 THEN <<>>
    ELSE InsertByTimestamp(SortByTimestamp(history, n - 1), history[n])

\* The deal of one url, if it has one: a sequence of none or one.
DealOf(url, history) ==
    IF Len(history) < 2 THEN <<>>
    ELSE LET sorted == SortByTimestamp(history, Len(history))
             latest == sorted[Len(sorted)]
             previous == sorted[Len(sorted) - 1]
         IN  IF latest.price < previous.price
                /\ DiscountAtLeast5(previous.price, latest.price)
             THEN <<[url |-> url, title |-> latest.title,
                     current_price |-> latest.price, previous_price |-> previous.price,
                     discount_percent |-> DiscountTenths(previous.price, latest.price),
                     currency |-> latest.currency]>>
             ELSE <<>>

\* for (const url in priceHistory): the urls in the order of their insertion.
RECURSIVE DealsFrom(_, _)
DealsFrom(o, i) ==
    IF i > Len(o) THEN <<>> ELSE DealOf(o[i].k, o[i].v) \o DealsFrom(o, i + 1)

\* deals.sort((a, b) => parseFloat(b.discount_percent) - parseFloat(a.discount_percent)):
\* descending, and stable.
InsertByDiscount(sorted, e) ==
    LET n == Cardinality({i \in DOMAIN sorted : sorted[i].discount_percent >= e.discount_percent})
    IN  SubSeq(sorted, 1, n) \o <<e>> \o SubSeq(sorted, n + 1, Len(sorted))

RECURSIVE SortByDiscount(_, _)
SortByDiscount(deals, n) ==
    IF n = 0 THEN <<>>
    ELSE InsertByDiscount(SortByDiscount(deals, n - 1), deals[n])

\* findCurrentDeals on the loaded object o.
findCurrentDeals(o, limit) ==
    LET deals == DealsFrom(o, 1)
        sorted == SortByDiscount(deals, Len(deals))
    IN  SubSeq(sorted, 1, IF limit < Len(sorted) THEN limit ELSE Len(sorted))

\* !deals: the handler calls findCurrentDeals(5) and replies.
CmdDeals(p) ==
    /\ MayStart(p)
    /\ LET deals == findCurrentDeals(priceHistory, DealsLimit)
       IN  proc' = [proc EXCEPT ![p] = [IdleProc EXCEPT !.pc = "done", !.op = "deals",
                        !.data = deals,
                        !.reply = IF Len(deals) > 0 THEN "deals" ELSE "No current deals found."]]
    /\ UNCHANGED <<now, priceHistory, trackedItems, alerts>>

\* !stats <url>: the handler calls getPriceStats and replies.
CmdStats(p, url) ==
    /\ MayStart(p)
    /\ LET stats == getPriceStats(priceHistory, url)
       IN  proc' = [proc EXCEPT ![p] = [IdleProc EXCEPT !.pc = "done", !.op = "stats",
                        !.arg = [NoItem EXCEPT !.url = url], !.data = stats,
                        !.reply = IF Len(stats) > 0 THEN "stats" ELSE "No price history found."]]
    /\ UNCHANGED <<now, priceHistory, trackedItems, alerts>>

\* The histories the queries are run on: a series of up to MaxSeries records,
\* one a day, oldest first, for none, one or both of the urls, the urls in
\* either order of insertion.
PriceSeqs == UNION {[1..n -> QueryPrices] : n \in 1..MaxSeries}

SeriesOf(prices) ==
    [i \in DOMAIN prices |->
        PriceRecord([ok |-> TRUE, title |-> "t1", price |-> prices[i]], (i - 1) * UnitsPerDay + 1)]

Histories ==
    {<<>>}
    \cup {<<[k |-> url, v |-> SeriesOf(ps)]>> : url \in Urls, ps \in PriceSeqs}
    \cup {<<[k |-> u[1], v |-> SeriesOf(ps[1])], [k |-> u[2], v |-> SeriesOf(ps[2])]>> :
             u \in {w \in Urls \X Urls : w[1] # w[2]}, ps \in PriceSeqs \X PriceSeqs}

InitQuery ==
    /\ now = (MaxSeries - 1) * UnitsPerDay + 1
    /\ priceHistory \in Histories
    /\ trackedItems = <<>>
    /\ proc = [p \in Procs |-> IdleProc]
    /\ alerts = [k \in Keys |-> 0]

\* ------------------------------------------------------- specifications
Next ==
    \/ \E p \in Cmds, url \in Urls, res \in FetchResults : CmdEmpik(p, url, res)
    \/ \E p \in Cmds, u \in Users, c \in Channels, url \in Urls, t \in Targets :
           CmdTrack(p, u, c, url, t)
    \/ \E p \in Cmds : TrkSave(p)
    \/ \E p \in Ticks : TickStart(p)
    \/ \E p \in Ticks, res \in FetchResults, env \in AlertEnvs : Fetch(p, res, env)
    \/ \E p \in Procs, env \in AlertEnvs : SphSave(p, env)
    \/ \E p \in Ticks : RmLoad(p)
    \/ \E p \in Ticks : RmSave(p)
    \/ \E p \in Ticks : TickEnd(p)

\* Every interleaving of the commands and the cron callbacks, within one
\* instant of the clock.
Spec == Init /\ [][Next]_vars

\* The commands and the cron callbacks one at a time, each run to its end
\* before the next starts, so that no two calls of the storage functions
\* overlap. The clock advances between them: a run is short beside a unit.
OneAtATime == \A q \in Procs : InFlight(q) => proc'[q] # proc[q]

Quiet == \A q \in Procs : ~InFlight(q)

NextSerial == (Next /\ OneAtATime) \/ (ClockAdvance /\ Quiet)

SpecSerial == Init /\ [][NextSerial]_vars

\* One at a time within one instant of the clock, with saves that fail.
Fails ==
    \/ \E p \in Procs, env \in AlertEnvs : SphSaveFails(p, env)
    \/ \E p \in Cmds : TrkSaveFails(p)
    \/ \E p \in Ticks : RmSaveFails(p)

NextFaults == (Next \/ Fails) /\ OneAtATime

SpecFaults == Init /\ [][NextFaults]_vars

\* A step of cron callback p: an await of its ends. The request of axios.get
\* has a timeout and the reads and writes of the files end, with or without
\* an error, so a callback that is at an await goes on.
TickStep(p) ==
    \/ \E res \in FetchResults, env \in AlertEnvs : Fetch(p, res, env)
    \/ \E env \in AlertEnvs : SphSave(p, env) \/ SphSaveFails(p, env)
    \/ RmLoad(p) \/ RmSave(p) \/ RmSaveFails(p)
    \/ TickEnd(p)

SpecLive == SpecFaults /\ \A p \in Ticks : WF_vars(TickStep(p))

\* The queries, !deals and !stats, on a price history drawn from Histories.
NextQuery ==
    \/ \E p \in Cmds : CmdDeals(p)
    \/ \E p \in Cmds, url \in Urls : CmdStats(p, url)

SpecQuery == InitQuery /\ [][NextQuery]_vars

\* ================================================================ claims
Series(o, url) == IF ObjHas(o, url) THEN ObjGet(o, url) ELSE <<>>

Records(o, url) == {Series(o, url)[i] : i \in DOMAIN Series(o, url)}

OnePerDay(entries) ==
    \A i, j \in DOMAIN entries : Day(entries[i].timestamp) = Day(entries[j].timestamp) => i = j

\* The step in which the save of p's savePriceHistory call ends.
SphSaved(p) == proc[p].pc = "sphSave" /\ proc'[p].pc # "sphSave"

\* The step in which p's savePriceHistory call finds today's entry and returns.
SphDeduped(p) ==
    /\ proc'[p].pc # "sphSave"
    /\ IF IsTick(p)
       THEN /\ proc[p].pc = "fetch"
            /\ Len(proc'[p].log) = Len(proc[p].log) + 1
            /\ proc'[p].log[Len(proc'[p].log)].price > 0
       ELSE /\ proc[p].pc = "idle"
            /\ proc'[p].op = "empik"
            /\ proc'[p].product.price > 0

\* The url of the savePriceHistory call that ends in this step.
CallUrl(p) == IF IsTick(p) THEN Item(p).url ELSE proc'[p].arg.url

\* The clock that p's call, now saving, read: the timestamp of its entry.
CallNow(p) ==
    LET series == Series(proc[p].data, Item(p).url) IN series[Len(series)].timestamp

\* The number of !track commands issued for a key.
Issued(k) ==
    Cardinality({c \in Cmds : /\ proc[c].op = "track"
                              /\ Key(proc[c].arg.userId, proc[c].arg.url) = k})

\* C1: with calls of savePriceHistory that do not overlap, a series never
\* holds two records of one calendar day; a record, once persisted, is the
\* record of its day for as long as the series has one of that day (title,
\* price, currency and timestamp of the first call of the day), and it stays
\* throughout its day; a call that saves persists a record with its own
\* values; a later call of the same day leaves the persisted history as it is.
C1_FirstOfDayWins ==
    [][/\ \A url \in Urls : OnePerDay(Series(priceHistory', url))
       /\ \A url \in Urls : \A r \in Records(priceHistory, url) :
              \A r2 \in Records(priceHistory', url) :
                  Day(r2.timestamp) = Day(r.timestamp) => r2 = r
       /\ \A url \in Urls : \A r \in Records(priceHistory, url) :
              Day(r.timestamp) = Day(now') => r \in Records(priceHistory', url)
       /\ \A p \in Procs : SphSaved(p) =>
              PriceRecord(proc[p].product, CallNow(p)) \in Records(priceHistory', Item(p).url)
       /\ \A p \in Procs : SphDeduped(p) =>
              /\ priceHistory' = priceHistory
              /\ HasToday(Series(priceHistory, CallUrl(p)), now)]_vars

\* A later call of the day has been discarded: an !empik command has replied
\* with a price, all within the first instant, and the series of its url
\* holds one record, with another price.
C1_Witness ==
    \E c \in Cmds :
        /\ proc[c].pc = "done" /\ proc[c].op = "empik" /\ proc[c].product.price > 0
        /\ now = Instant(0)
        /\ Len(Series(priceHistory, proc[c].arg.url)) = 1
        /\ Series(priceHistory, proc[c].arg.url)[1].price # proc[c].product.price

\* C2 as stated: right after any savePriceHistory call ends, a deduplicated
\* one included, no record of the item's series is older than now minus the
\* retention window.
C2_Original ==
    [][\A p \in Procs : (SphSaved(p) \/ SphDeduped(p)) =>
           \A r \in Records(priceHistory', IF SphSaved(p) THEN Item(p).url ELSE CallUrl(p)) :
               r.timestamp >= now' - RetentionUnits]_vars

\* C2, amended: right after a savePriceHistory call that pushes a record has
\* saved, every record of every series of the persisted history is younger
\* than the retention window, counted from the clock the call read.
C2_PrunedOnWrite ==
    [][\A p \in Procs : SphSaved(p) =>
           \A url \in Urls : \A r \in Records(priceHistory', url) :
               r.timestamp > CallNow(p) - RetentionUnits]_vars

\* A call is about to save a history from which it has dropped an old record.
C2_Witness ==
    \E p \in Procs :
        /\ proc[p].pc = "sphSave"
        /\ \E url \in Urls : \E r \in Records(priceHistory, url) :
               /\ r \notin Records(proc[p].data, url)
               /\ r.timestamp <= CallNow(p) - RetentionUnits

\* C3 (for an item whose alert was sent, and whose key had one !track
\* command): at the end of a tick, every item of its list that was fetched
\* with a price p, 0 < p <= targetPrice, has a price-history series and is
\* absent from the registry.
C3_Original ==
    \A p \in Ticks : proc[p].pc = "end" =>
        \A i \in DOMAIN proc[p].log :
            LET e == proc[p].log[i]
                item == proc[p].snapshot[i]
            IN  (/\ e.ok /\ 0 < e.price /\ e.price <= item.targetPrice
                 /\ e.sent
                 /\ Issued(Key(item.userId, item.url)) = 1)
                => /\ ObjHas(priceHistory, item.url)
                   /\ ~ObjHas(trackedItems, Key(item.userId, item.url))

\* C4: the cron callback removes a subscription only after its alert was
\* acknowledged.
C4_Original ==
    [][\A p \in Ticks :
           (/\ proc[p].pc = "rmSave"
            /\ proc'[p].pc # "rmSave"
            /\ ObjHas(trackedItems, Key(Item(p).userId, Item(p).url))
            /\ ~ObjHas(trackedItems', Key(Item(p).userId, Item(p).url)))
           => proc[p].alert = "ack"]_vars

\* C5: a key has had at most as many alerts delivered as !track commands
\* issued for it.
C5_Original == \A k \in Keys : alerts[k] <= Issued(k)

\* C6: at most one cron callback is going through its items.
C6_Original ==
    Cardinality({p \in Ticks : proc[p].pc \in {"fetch", "sphSave", "rmLoad", "rmSave"}}) <= 1

\* C7: when two !empik commands for one url, fetched with different prices,
\* have both ended (within one day), the series of the url holds one record
\* and it has the price of the command that started first.
C7_Original ==
    LET c1 == <<"cmd", 1>>
        c2 == <<"cmd", 2>>
    IN  (/\ proc[c1].pc = "done" /\ proc[c1].op = "empik" /\ proc[c1].product.price > 0
         /\ proc[c2].pc = "done" /\ proc[c2].op = "empik" /\ proc[c2].product.price > 0
         /\ proc[c1].arg.url = proc[c2].arg.url
         /\ proc[c1].product.price # proc[c2].product.price)
        => /\ Len(Series(priceHistory, proc[c1].arg.url)) = 1
           /\ Series(priceHistory, proc[c1].arg.url)[1].price = proc[c1].product.price

\* C8: with calls that do not overlap, the save of saveTrackedItem leaves one
\* entry under the call's key, holding the call's userId, channelId, url,
\* targetPrice and createdAt, and every other entry as it was.
C8_UpsertByKey ==
    [][\A c \in Cmds : (proc[c].pc = "trkSave" /\ proc'[c].pc # "trkSave") =>
           LET item == proc[c].arg
               k == Key(item.userId, item.url)
           IN  /\ Cardinality({i \in DOMAIN trackedItems' : trackedItems'[i].k = k}) = 1
               /\ ObjGet(trackedItems', k) = item
               /\ \A k2 \in Keys \ {k} :
                      /\ ObjHas(trackedItems', k2) <=> ObjHas(trackedItems, k2)
                      /\ ObjHas(trackedItems, k2) =>
                             ObjGet(trackedItems', k2) = ObjGet(trackedItems, k2)]_vars

\* A second subscription for a key is about to replace one with another
\* target price.
C8_Witness ==
    \E c \in Cmds :
        /\ proc[c].pc = "trkSave"
        /\ ObjHas(trackedItems, Key(proc[c].arg.userId, proc[c].arg.url))
        /\ ObjGet(trackedItems, Key(proc[c].arg.userId, proc[c].arg.url)).targetPrice
               # proc[c].arg.targetPrice

\* The step in which the fetch of a tick's current item fails.
FetchFailed(p) ==
    /\ proc[p].pc = "fetch"
    /\ Len(proc'[p].log) = Len(proc[p].log) + 1
    /\ ~proc'[p].log[Len(proc'[p].log)].ok

\* C9: the step in which the fetch of a tick's item fails leaves the registry,
\* the price history and the alerts as they were, sends nothing, and takes the
\* tick to the fetch of the next item of its list, or to its end after the last.
C9_FetchFailureSkipsItem ==
    [][\A p \in Ticks : FetchFailed(p) =>
           /\ trackedItems' = trackedItems
           /\ priceHistory' = priceHistory
           /\ alerts' = alerts
           /\ ~proc'[p].log[Len(proc'[p].log)].sent
           /\ proc'[p].snapshot = proc[p].snapshot
           /\ IF proc[p].idx < Len(proc[p].snapshot)
              THEN proc'[p].pc = "fetch" /\ proc'[p].idx = proc[p].idx + 1
              ELSE proc'[p].pc = "end"]_vars

\* A tick is fetching the second item of its list after the fetch of the
\* first failed, and the first is still tracked.
C9_Witness ==
    \E p \in Ticks :
        /\ proc[p].pc = "fetch" /\ proc[p].idx = 2
        /\ ~proc[p].log[1].ok
        /\ ObjHas(trackedItems, Key(proc[p].snapshot[1].userId, proc[p].snapshot[1].url))

\* C10: when saveTrackedItem has returned true (the handler replies that it
\* is tracking), the registry file holds the subscription; and the save has
\* either written the whole object or left the file as it was.
C10_Original ==
    [][\A c \in Cmds : (proc[c].pc = "trkSave" /\ proc'[c].reply = "tracking") =>
           /\ ObjHas(trackedItems', Key(proc[c].arg.userId, proc[c].arg.url))
           /\ ObjGet(trackedItems', Key(proc[c].arg.userId, proc[c].arg.url)) = proc[c].arg
           /\ trackedItems' \in {trackedItems, proc[c].data}]_vars

\* C11: every record of the persisted price history, and of a history that a
\* savePriceHistory call is about to save, has a price above 0, whichever
\* handler, command or cron callback, made the observation: a product parsed
\* without a price (price 0) is never passed to savePriceHistory.
C11_PricesPositive ==
    /\ \A url \in Urls : \A r \in Records(priceHistory, url) : r.price > 0
    /\ \A p \in Procs : proc[p].pc = "sphSave" =>
           /\ proc[p].product.price > 0
           /\ \A url \in Urls : \A r \in Records(proc[p].data, url) : r.price > 0

\* An !empik command has replied with a product parsed without a price, and
\* its url has no series, while the other url has one.
C11_Witness ==
    \E c \in Cmds :
        /\ proc[c].pc = "done" /\ proc[c].op = "empik"
        /\ proc[c].product.ok /\ proc[c].product.price = 0
        /\ ~ObjHas(priceHistory, proc[c].arg.url)
        /\ priceHistory # <<>>

\* The record of a series with the latest timestamp, and the latest before it.
ChronLast(entries) ==
    CHOOSE e \in {entries[i] : i \in DOMAIN entries} :
        \A i \in DOMAIN entries : entries[i].timestamp <= e.timestamp

ChronPrev(entries) ==
    CHOOSE e \in {entries[i] : i \in DOMAIN entries} :
        /\ e.timestamp < ChronLast(entries).timestamp
        /\ \A i \in DOMAIN entries :
               entries[i].timestamp < ChronLast(entries).timestamp
                   => entries[i].timestamp <= e.timestamp

\* The drop from the second-to-last price to the last is 5 per cent or more.
Qualifies(o, url) ==
    /\ Len(Series(o, url)) >= 2
    /\ LET previous == ChronPrev(Series(o, url)).price
           latest == ChronLast(Series(o, url)).price
       IN  (previous - latest) * 100 >= 5 * previous

\* A !deals command that has replied.
DealsDone(c) == proc[c].pc = "done" /\ proc[c].op = "deals"

\* C12: the deals that !deals replies with are those of the urls whose
\* series has two records or more and whose drop from the chronologically
\* second-to-last price to the last is 5 per cent or more, 5 included.
C12_Original ==
    \A c \in Cmds : DealsDone(c) =>
        \A url \in Urls :
            (\E i \in DOMAIN proc[c].data : proc[c].data[i].url = url)
                <=> Qualifies(priceHistory, url)

UrlRank(url) == IF url = "a" THEN 1 ELSE 2

\* Deal d comes before deal e: its drop is the larger one or, the drops being
\* equal, its url is the smaller one.
DealBefore(d, e) ==
    LET dropD == (d.previous_price - d.current_price) * e.previous_price
        dropE == (e.previous_price - e.current_price) * d.previous_price
    IN  dropD > dropE \/ (dropD = dropE /\ UrlRank(d.url) < UrlRank(e.url))

\* C13: the deals that !deals replies with are at most the limit, and are in
\* the order of their exact drop, the largest first, equal drops in the order
\* of their urls.
C13_Original ==
    \A c \in Cmds : DealsDone(c) =>
        /\ Len(proc[c].data) <= DealsLimit
        /\ \A i, j \in DOMAIN proc[c].data :
               i < j => DealBefore(proc[c].data[i], proc[c].data[j])

\* The step in which a !stats command runs.
StatsStep(c) == proc[c].pc = "idle" /\ proc'[c].op = "stats"

Total(entries) ==
    LET RECURSIVE T(_)
        T(e) == IF e = <<>> THEN 0 ELSE Head(e).price + T(Tail(e))
    IN  T(entries)

\* C14: a !stats command gets no result when the history has no series for
\* its url and when it has one gets the least and the greatest price of the
\* series, its mean to the nearest grosz, the number of its records, and the
\* price and the timestamp of its chronologically last record; the history is
\* left as it was.
C14_StatsOfSeries ==
    [][\A c \in Cmds : StatsStep(c) =>
           LET url == proc'[c].arg.url
               entries == Series(priceHistory, url)
               result == proc'[c].data
           IN  /\ priceHistory' = priceHistory
               /\ result = <<>> <=> ~ObjHas(priceHistory, url)
               /\ result # <<>> =>
                      LET stats == result[1]
                          n == Len(entries)
                      IN  /\ Len(result) = 1
                          /\ \E r \in Records(priceHistory, url) : r.price = stats.lowest_price
                          /\ \E r \in Records(priceHistory, url) : r.price = stats.highest_price
                          /\ \A r \in Records(priceHistory, url) :
                                 stats.lowest_price <= r.price /\ r.price <= stats.highest_price
                          /\ 2 * (stats.avg_price * n - Total(entries)) \in (1 - n)..n
                          /\ stats.price_checks = n
                          /\ stats.latest_price = ChronLast(entries).price
                          /\ stats.latest_check = ChronLast(entries).timestamp]_vars

\* A !stats command has replied for a series of three records, of which the
\* second has the least price and the third, the last, the greatest.
C14_Witness ==
    \E c \in Cmds :
        /\ proc[c].pc = "done" /\ proc[c].op = "stats" /\ proc[c].data # <<>>
        /\ LET stats == proc[c].data[1]
               entries == Series(priceHistory, proc[c].arg.url)
           IN  /\ stats.price_checks = 3
               /\ entries[2].price = stats.lowest_price
               /\ entries[3].price = stats.highest_price
               /\ stats.latest_price = stats.highest_price
               /\ entries[1].price \notin {stats.lowest_price, stats.highest_price}

\* C15: no url of the persisted price history has an empty series; and right
\* after a savePriceHistory call has saved, a url other than the call's own
\* whose records were all a retention window old, or older, by the clock the
\* call read is no longer in the history.
C15_NoEmptySeries ==
    [][/\ \A i \in DOMAIN priceHistory' : Len(priceHistory'[i].v) > 0
       /\ \A p \in Procs : SphSaved(p) =>
              \A url \in Urls \ {Item(p).url} :
                  (\A r \in Records(priceHistory, url) :
                       r.timestamp <= CallNow(p) - RetentionUnits)
                      => ~ObjHas(priceHistory', url)]_vars

\* A call is about to save a history from which it has removed a url, every
\* record of whose series was old.
C15_Witness ==
    \E p \in Procs :
        /\ proc[p].pc = "sphSave"
        /\ \E url \in Urls :
               /\ ObjHas(priceHistory, url)
               /\ ~ObjHas(proc[p].data, url)
               /\ ObjHas(proc[p].data, Item(p).url)

\* C16: when a cron callback is at the fetch of an item, the delay has run
\* after each of the items before it, however the work on them ended.
C16_Original ==
    \A p \in Ticks : proc[p].pc = "fetch" =>
        \A i \in 1..(proc[p].idx - 1) : proc[p].log[i].delayed

\* The key of the i-th item of tick p's list.
KeyAt(p, i) == Key(proc[p].snapshot[i].userId, proc[p].snapshot[i].url)

\* Tick p's call of removeTrackedItem for its i-th item has returned.
RemoveReturned(p, i) ==
    /\ i \in DOMAIN proc[p].log
    /\ proc[p].log[i].sent
    /\ i < proc[p].idx \/ proc[p].pc = "end"

\* C17 (one !track command for each of two keys, one cron callback): when
\* saveTrackedItem for key k1 and the callback's removeTrackedItem for
\* another key k2 have both returned, the registry holds k1 and not k2.
C17_Original ==
    \A c \in Cmds, p \in Ticks, i \in 1..Cardinality(Keys) :
        LET k1 == Key(proc[c].arg.userId, proc[c].arg.url)
        IN  (/\ proc[c].pc = "done" /\ proc[c].op = "track"
             /\ RemoveReturned(p, i)
             /\ KeyAt(p, i) # k1
             /\ Issued(k1) = 1 /\ Issued(KeyAt(p, i)) = 1
             /\ \A j \in DOMAIN proc[p].log : proc[p].log[j].sent => KeyAt(p, j) # k1
             /\ \A q \in Ticks \ {p} : proc[q].pc = "idle")
            => /\ ObjHas(trackedItems, k1)
               /\ ~ObjHas(trackedItems, KeyAt(p, i))

\* C18: when two !empik commands for two urls, each fetched with a price,
\* have both ended (within one day), both urls have a series.
C18_Original ==
    \A c1, c2 \in Cmds :
        (/\ proc[c1].pc = "done" /\ proc[c1].op = "empik" /\ proc[c1].product.price > 0
         /\ proc[c2].pc = "done" /\ proc[c2].op = "empik" /\ proc[c2].product.price > 0
         /\ proc[c1].arg.url # proc[c2].arg.url)
        => /\ ObjHas(priceHistory, proc[c1].arg.url)
           /\ ObjHas(priceHistory, proc[c2].arg.url)

\* The step in which tick p sends the alert for its current item.
AlertSent(p) ==
    /\ proc[p].pc \in {"fetch", "sphSave"}
    /\ Len(proc'[p].log) = Len(proc[p].log) + 1
    /\ proc'[p].log[Len(proc'[p].log)].sent

\* C19 (one cron callback, and a registry that holds the item's key): when
\* the callback sends the alert for an item, the targetPrice of the
\* subscription that the registry holds under the item's key is the fetched
\* price or more; and the subscription that its removeTrackedItem deletes is
\* the one of its list.
C19_Original ==
    [][\A p \in Ticks : (\A q \in Ticks \ {p} : proc[q].pc = "idle") =>
           LET k == Key(Item(p).userId, Item(p).url)
           IN  /\ (AlertSent(p) /\ ObjHas(trackedItems, k)) =>
                      ObjGet(trackedItems, k).targetPrice
                          >= proc'[p].log[Len(proc'[p].log)].price
               /\ (/\ proc[p].pc = "rmSave" /\ proc'[p].pc # "rmSave"
                   /\ ObjHas(trackedItems, k) /\ ~ObjHas(trackedItems', k))
                      => ObjGet(trackedItems, k) = Item(p)]_vars

\* C20: a cron callback that has started comes to its end; while it runs it
\* has fetched each item of its list before the current one once, and at its
\* end each item of the list once, whatever became of the fetches, the alerts
\* and the removals.
C20_TickTerminates ==
    /\ \A p \in Ticks : InFlight(p) ~> (proc[p].pc = "done")
    /\ [](\A p \in Ticks :
            /\ proc[p].pc \in {"fetch", "sphSave"} => Len(proc[p].log) = proc[p].idx - 1
            /\ proc[p].pc \in {"rmLoad", "rmSave"} => Len(proc[p].log) = proc[p].idx
            /\ proc[p].pc = "end" => /\ Len(proc[p].log) = Len(proc[p].snapshot)
                                     /\ proc[p].idx = Len(proc[p].snapshot)
            /\ InFlight(p) => proc[p].idx <= Len(proc[p].snapshot))

\* A callback is at its end after two items: the fetch of the first failed or
\* its alert threw, and the second was fetched and its alert sent.
C20_Witness ==
    \E p \in Ticks :
        /\ proc[p].pc = "end" /\ Len(proc[p].snapshot) = 2
        /\ ~proc[p].log[1].ok \/ ~proc[p].log[1].delayed
        /\ proc[p].log[2].sent

====
